---- MODULE Spec2Model ----
(***************************************************************************)
(* One day of bike parking data (DayData) and its aggregation into         *)
(* fixed-width time blocks (DayData.calc_blocks), together with the        *)
(* statistics helpers calculate_visit_frequencies, calculate_visit_modes   *)
(* and time_distribution of tt_util.                                       *)
(*                                                                         *)
(* Times are minutes since midnight.  The time type BTime and the Event    *)
(* class are imported by the sources but are not part of them; they are    *)
(* modelled from the design document.  A BTime is a string "HH:MM" whose   *)
(* invalid form is the empty string: the empty string sorts below every    *)
(* valid time, is falsy, and has no minute count, so arithmetic on it      *)
(* raises.  Empty stands for it (and for an omitted None argument).        *)
(*                                                                         *)
(* calc_blocks names `day` and `block_start` where it means `self` and     *)
(* `Block.block_start`; the model reads them that way.                     *)
(***************************************************************************)
EXTENDS FiniteSets, Integers, Sequences, TLC

\* ------------------------------------------------------------------ bounds
\* Most visits in one day.
MaxVisits == 2
\* Latest minute at which anything happens in the model.
MaxTime == 60
\* Distance in minutes between the candidate event times.
TimeStep == 20

\* ------------------------------------------------------- program constants
BLOCK_DURATION == 30

\* The invalid/empty BTime ("") and an omitted argument (None): both falsy.
Empty == -1

\* A non-empty text that is no time ("junk"): truthy, and BTime of it is the
\* invalid time.
Malformed == -2

\* ---------------------------------------------------------------- helpers
Range(s) == {s[i] : i \in DOMAIN s}

Min(S) == CHOOSE x \in S : \A y \in S : x <= y

Max(S) == CHOOSE x \in S : \A y \in S : y <= x

RECURSIVE sorted(_)
sorted(S) == IF S = {} THEN <<>> ELSE <<Min(S)>> \o sorted(S \ {Min(S)})

RECURSIVE SumSeq(_)
SumSeq(s) == IF s = <<>> THEN 0 ELSE Head(s) + SumSeq(Tail(s))

\* ----------------------------------------------------------- input domain
TagSeq == <<"A", "B">>

Tags == Range(TagSeq)

TagIndex(tag) == CHOOSE i \in DOMAIN TagSeq : TagSeq[i] = tag

Times == {t \in 0..MaxTime : t % TimeStep = 0}

\* A Visit: bike_id, time_in (always known), time_out (Empty while the bike
\* is still parked).
Visit == [bike_id : Tags, time_in : Times, time_out : Times \cup {Empty}]

\* The order the starting lists are kept in: by time_in, time_out, bike_id.
VisitLE(v, w) ==
    \/ v.time_in < w.time_in
    \/ v.time_in = w.time_in /\ v.time_out < w.time_out
    \/ v.time_in = w.time_in /\ v.time_out = w.time_out /\ TagIndex(v.bike_id) <= TagIndex(w.bike_id)

\* The days the model starts from: one list per multiset of visits (a tag may
\* be used for several visits); the other insertion orders of the same
\* visits are the lists of Reordered below.
VisitLists ==
    {vs \in UNION {[1..n -> Visit] : n \in 0..MaxVisits} :
        \A i \in DOMAIN vs : i > 1 => VisitLE(vs[i - 1], vs[i])}

ClosingTimes == {Empty, 2 * TimeStep}

\* ------------------------------------------------------------------ BTime
IsValid(t) == t # Empty

\* BTime(n) of a number of minutes: the time value n for n in 0..1440 (24:00
\* is the last time of a day), the invalid value for any other number.
BTime(n) == IF n \in 0..1440 THEN n ELSE Empty

\* a // b of Python for b # 0: the quotient rounded toward minus infinity.
floordiv(a, b) == IF b > 0 THEN a \div b ELSE (0 - a) \div (0 - b)

\* ------------------------------------------------------------------ Block

block_start(atime) == BTime((atime \div BLOCK_DURATION) * BLOCK_DURATION)

block_end(atime) == BTime(block_start(atime) + BLOCK_DURATION - 1)

NewBlock(t) ==
    [time_start |-> t,
     ins_list |-> <<>>, outs_list |-> <<>>,
     num_ins |-> 0, num_outs |-> 0,
     here_list |-> {}, num_here |-> 0,
     max_here |-> 0, max_here_list |-> {},
     num_ins_regular |-> 0, num_ins_oversize |-> 0,
     num_outs_regular |-> 0, num_outs_oversize |-> 0,
     num_here_regular |-> 0, num_here_oversize |-> 0,
     max_here_regular |-> 0, max_here_oversize |-> 0]

\* ---------------------------------------------------------------- DayData
\* [x.time_in for x in visits] + [x.time_out for x in visits]
all_events(vs) == {vs[i].time_in : i \in DOMAIN vs} \cup {vs[i].time_out : i \in DOMAIN vs}

earliest_event(vs) == IF all_events(vs) = {} THEN Empty ELSE Min(all_events(vs))

\* A bound as_of_when that is no time gives ""; any other is converted and
\* then not used: the result is max(events, default="").
latest_event(vs, when) ==
    IF when = Malformed THEN Empty
    ELSE IF all_events(vs) = {} THEN Empty ELSE Max(all_events(vs))

\* Transactions <= as_of_when; the empty time_out of a bike still parked is
\* among them, since "" sorts first.
included_events(vs, when) == {x \in all_events(vs) : x <= when}

\* block_start of the empty time: BTime("").num // BLOCK_DURATION raises.
timeblocks_raise(vs, when) ==
    /\ included_events(vs, when) # {}
    /\ ~IsValid(Min(included_events(vs, when)))

\* get_timeblock_starts with the range ending at max_block_min, exclusive.
get_timeblock_starts_short(vs, when) ==
    LET events == included_events(vs, when) IN
    IF events = {} THEN <<>>
    ELSE LET min_block_min == block_start(Min(events))
             max_block_min == block_start(Max(events))
         IN sorted({t \in min_block_min..(max_block_min - 1) :
                       (t - min_block_min) % BLOCK_DURATION = 0})

get_timeblock_starts(vs, when) ==
    LET events == included_events(vs, when) IN
    IF events = {} THEN <<>>
    ELSE LET min_block_min == block_start(Min(events))
             max_block_min == block_start(Max(events))
         IN sorted({t \in min_block_min..(max_block_min + BLOCK_DURATION - 1) :
                       (t - min_block_min) % BLOCK_DURATION = 0})

\* ------------------------------------------------------------------ Event
\* Event.calc_events: one event per minute in which something happened at or
\* before as_of_when, with the tags checked in and out in that minute (in
\* visit order), and the running occupancy set after the event.
event_times(vs, when) == {t \in all_events(vs) : IsValid(t) /\ t <= when}

bikes_in(vs, t) ==
    LET s == SelectSeq(vs, LAMBDA v : v.time_in = t)
    IN [i \in 1..Len(s) |-> s[i].bike_id]

bikes_out(vs, t) ==
    LET s == SelectSeq(vs, LAMBDA v : v.time_out = t)
    IN [i \in 1..Len(s) |-> s[i].bike_id]

RECURSIVE bikes_here(_, _, _)
bikes_here(vs, when, t) ==
    LET earlier == {u \in event_times(vs, when) : u < t}
        before == IF earlier = {} THEN {} ELSE bikes_here(vs, when, Max(earlier))
    IN (before \cup Range(bikes_in(vs, t))) \ Range(bikes_out(vs, t))

calc_events(vs, when) ==
    [t \in event_times(vs, when) |->
        [event_time |-> t,
         bikes_in |-> bikes_in(vs, t),
         bikes_out |-> bikes_out(vs, t),
         bikes_here |-> bikes_here(vs, when, t),
         num_here_total |-> Cardinality(bikes_here(vs, when, t))]]

\* ------------------------------------------------------------ calc_blocks
\* The effective as_of_when of a call: the argument, or by default the
\* latest event raised to closing_time.
\* default_as_of with the clock as the default ("now", as num_later_events
\* has it) instead of the latest event of the day.
default_as_of_now(vs, closing) == Empty

default_as_of(vs, closing) ==
    LET le == latest_event(vs, 1440)
    IN IF le < closing THEN closing ELSE le

\* replay_event with the peak overwritten by every event, which leaves the
\* count after the block's last event instead of the high-water mark.
replay_event_last(blks, ev, latest_time) ==
    LET bstart == block_start(ev.event_time)
        blk == blks[bstart]
    IN IF ev.event_time > latest_time THEN blks
       ELSE [blks EXCEPT ![bstart] =
               [blk EXCEPT
                  !.ins_list = blk.ins_list \o ev.bikes_in,
                  !.outs_list = blk.outs_list \o ev.bikes_out,
                  !.max_here = ev.num_here_total,
                  !.max_here_list = ev.bikes_here]]

\* replay_event with `=` for `+=`: an event replaces the block's lists.
replay_event_assign(blks, ev, latest_time) ==
    LET bstart == block_start(ev.event_time)
        blk == blks[bstart]
    IN IF ev.event_time > latest_time THEN blks
       ELSE [blks EXCEPT ![bstart] =
               [blk EXCEPT
                  !.ins_list = ev.bikes_in,
                  !.outs_list = ev.bikes_out,
                  !.max_here = IF ev.num_here_total > blk.max_here
                               THEN ev.num_here_total ELSE blk.max_here,
                  !.max_here_list = IF ev.num_here_total > blk.max_here
                                    THEN ev.bikes_here ELSE blk.max_here_list]]

\* One pass of the replay loop: the event is added to the block that owns it.
replay_event(blks, ev, latest_time) ==
    LET bstart == block_start(ev.event_time)
        blk == blks[bstart]
    IN IF ev.event_time > latest_time THEN blks
       ELSE [blks EXCEPT ![bstart] =
               [blk EXCEPT
                  !.ins_list = blk.ins_list \o ev.bikes_in,
                  !.outs_list = blk.outs_list \o ev.bikes_out,
                  !.max_here = IF ev.num_here_total > blk.max_here
                               THEN ev.num_here_total ELSE blk.max_here,
                  !.max_here_list = IF ev.num_here_total > blk.max_here
                                    THEN ev.bikes_here ELSE blk.max_here_list]]

\* here_step that starts every block from the empty set.
here_step_forget(here_set, blk) == Range(blk.ins_list) \ Range(blk.outs_list)

\* here_step that takes the block's ins and outs pairwise in list order.
RECURSIVE here_pairs(_, _, _, _)
here_pairs(here_set, ins, outs, k) ==
    IF k > Len(ins) /\ k > Len(outs) THEN here_set
    ELSE here_pairs((here_set \cup (IF k <= Len(ins) THEN {ins[k]} ELSE {}))
                        \ (IF k <= Len(outs) THEN {outs[k]} ELSE {}),
                    ins, outs, k + 1)

here_step_pairwise(here_set, blk) == here_pairs(here_set, blk.ins_list, blk.outs_list, 1)

\* here_set = (here_set | set(blk.ins_list)) - set(blk.outs_list)
here_step(here_set, blk) == (here_set \cup Range(blk.ins_list)) \ Range(blk.outs_list)

\* The here loop over the blocks in key order; here_after(blks, t) is
\* here_set after the pass for block t.
RECURSIVE here_after(_, _)
here_after(blks, t) ==
    LET earlier == {u \in DOMAIN blks : u < t}
        before == IF earlier = {} THEN {} ELSE here_after(blks, Max(earlier))
    IN here_step(before, blks[t])

calc_here(blks) ==
    [t \in DOMAIN blks |->
        [blks[t] EXCEPT
           !.num_ins = Len(blks[t].ins_list),
           !.num_outs = Len(blks[t].outs_list),
           !.here_list = here_after(blks, t),
           !.num_here = Cardinality(here_after(blks, t))]]

\* for tag in <list>: if tag in day.regular: n_regular += 1
\*                  elif tag in day.oversize: n_oversize += 1
count_regular(tags, reg) == Len(SelectSeq(tags, LAMBDA tag : tag \in reg))

\* count_oversize with `if` for `elif`: a tag of both rosters counts twice.
count_oversize_if(tags, reg, over) == Len(SelectSeq(tags, LAMBDA tag : tag \in over))

count_oversize(tags, reg, over) ==
    Len(SelectSeq(tags, LAMBDA tag : tag \notin reg /\ tag \in over))

\* The same two counters over a set of tags (here_list, max_here_list).
count_regular_set(tags, reg) == Cardinality({tag \in tags : tag \in reg})

count_oversize_set(tags, reg, over) ==
    Cardinality({tag \in tags : tag \notin reg /\ tag \in over})

categorize(blks, reg, over) ==
    [t \in DOMAIN blks |->
        [blks[t] EXCEPT
           !.num_ins_regular = count_regular(blks[t].ins_list, reg),
           !.num_ins_oversize = count_oversize(blks[t].ins_list, reg, over),
           !.num_outs_regular = count_regular(blks[t].outs_list, reg),
           !.num_outs_oversize = count_oversize(blks[t].outs_list, reg, over),
           !.num_here_regular = count_regular_set(blks[t].here_list, reg),
           !.num_here_oversize = count_oversize_set(blks[t].here_list, reg, over),
           !.max_here_regular = count_regular_set(blks[t].max_here_list, reg),
           !.max_here_oversize = count_oversize_set(blks[t].max_here_list, reg, over)]]

\* sorted(events.keys()): the order in which the replay loop takes the events.
event_order(evs) == sorted(DOMAIN evs)

\* The replay loop over the first k events of the order.
RECURSIVE replay_all(_, _, _)
replay_all(blks, evs, k) ==
    IF k = 0 THEN blks
    ELSE replay_event(replay_all(blks, evs, k - 1), evs[event_order(evs)[k]],
                      block_end(Max(DOMAIN blks)))

\* What a call of calc_blocks with the effective as_of_when `when` and the
\* rosters reg and over gives for the visit list vs: it raises, or it returns
\* the mapping blocks.
calc_blocks(vs, when, reg, over) ==
    IF timeblocks_raise(vs, when) THEN [raised |-> TRUE, blocks |-> <<>>]
    ELSE LET blocktimes == get_timeblock_starts(vs, when) IN
         IF blocktimes = <<>> THEN [raised |-> FALSE, blocks |-> <<>>]
         ELSE LET evs == calc_events(vs, when)
                  fresh == [t \in Range(blocktimes) |-> NewBlock(t)]
                  replayed == replay_all(fresh, evs, Cardinality(DOMAIN evs))
              IN [raised |-> FALSE,
                  blocks |-> categorize(calc_here(replayed), reg, over)]

\* ------------------------------------------------------ time_distribution
\* The category of a number of minutes: (d // category_width) * category_width.
category(t, width) == floordiv(t, width) * width

\* dict(collections.Counter(categorized)): the categories in the order of
\* their first occurrence in the list, and the count of each.  A category
\* that is no time of the day has the empty text and is removed as a null.
RECURSIVE freq_keys(_, _)
freq_keys(times_list, width) ==
    IF times_list = <<>> THEN <<>>
    ELSE LET front == freq_keys(SubSeq(times_list, 1, Len(times_list) - 1), width)
             c == category(times_list[Len(times_list)], width)
         IN IF c \in Range(front) \/ ~IsValid(BTime(c)) THEN front ELSE Append(front, c)

freq_count(times_list, width, c) ==
    Cardinality({i \in DOMAIN times_list : category(times_list[i], width) = c})

\* range(start_time.num, end_time.num + 1, category_width)
target_categories(start, end, width) ==
    IF width > 0
    THEN {t \in start..end : (t - start) % width = 0}
    ELSE {t \in (end + 2)..start : (start - t) % (0 - width) = 0}

\* The loop `for cat_start, cat_count in freq.items()` over the first k keys:
\* a category of the target list gets its count; one below start_time is
\* added to the start bucket, one above end_time to the end bucket
\* (KeyError if that bucket is not in the target list); any other is passed
\* over.
RECURSIVE fold_freq(_, _, _, _, _, _)
fold_freq(times_list, width, start, end, keys, k) ==
    IF k = 0
    THEN [raised |-> FALSE, have_unders |-> FALSE, have_overs |-> FALSE,
          categories |-> [t \in target_categories(start, end, width) |-> 0]]
    ELSE LET acc == fold_freq(times_list, width, start, end, keys, k - 1)
             cat_start == keys[k]
             cat_count == freq_count(times_list, width, cat_start)
             cur == acc.categories
         IN IF acc.raised THEN acc
            ELSE IF cat_start \in DOMAIN cur
            THEN [acc EXCEPT !.categories = [cur EXCEPT ![cat_start] = cat_count]]
            ELSE IF cat_start < start
            THEN IF start \in DOMAIN cur
                 THEN [acc EXCEPT !.categories = [cur EXCEPT ![start] = @ + cat_count],
                                  !.have_unders = TRUE]
                 ELSE [acc EXCEPT !.raised = TRUE]
            ELSE IF cat_start > end
            THEN IF end \in DOMAIN cur
                 THEN [acc EXCEPT !.categories = [cur EXCEPT ![end] = @ + cat_count],
                                  !.have_overs = TRUE]
                 ELSE [acc EXCEPT !.raised = TRUE]
            ELSE acc

\* The label of a bucket is its start time and the mark put after it.
\* Decoration: with have_unders the start bucket is popped and put back
\* under "<start>-", with have_overs the end bucket under "<end>+"; popping a
\* label that is no longer there is a KeyError.
decorate(acc, start, end) ==
    LET plain == {<<t, "">> : t \in DOMAIN acc.categories}
        under == IF acc.have_unders
                 THEN (plain \ {<<start, "">>}) \cup {<<start, "-">>} ELSE plain
        over == IF acc.have_overs
                THEN (under \ {<<end, "">>}) \cup {<<end, "+">>} ELSE under
    IN IF acc.have_overs /\ <<end, "">> \notin under
       THEN [raised |-> TRUE, result |-> <<>>]
       ELSE [raised |-> FALSE,
             result |-> [label \in over |-> acc.categories[label[1]]]]

\* time_distribution(times_list, start_time, end_time, category_width);
\* Empty for an omitted start or end.  A value that is no time of the day
\* has BTime(t).num None, and None // category_width is a TypeError; a
\* width of 0 is a ZeroDivisionError for a list with values and a ValueError
\* (min or max of nothing, or range with step 0) for the empty list; min or
\* max of no category at all is a ValueError.
time_distribution(times_list, start_time, end_time, width) ==
    IF \E i \in DOMAIN times_list : ~IsValid(BTime(times_list[i]))
    THEN [raised |-> TRUE, result |-> <<>>]
    ELSE IF width = 0
    THEN [raised |-> TRUE, result |-> <<>>]
    ELSE
    LET keys == freq_keys(times_list, width) IN
    IF keys = <<>> /\ (start_time = Empty \/ end_time = Empty)
    THEN [raised |-> TRUE, result |-> <<>>]
    ELSE LET start == IF start_time # Empty THEN start_time ELSE Min(Range(keys))
             end == IF end_time # Empty THEN end_time ELSE Max(Range(keys))
             acc == fold_freq(times_list, width, start, end, keys, Len(keys))
         IN IF acc.raised THEN [raised |-> TRUE, result |-> <<>>]
            ELSE decorate(acc, start, end)

\* Strings are sequences of character codes: "+" 43, "-" 45, "0".."9"
\* 48..57, ":" 58.  BTime(t).tidy is the five characters HH:MM of a valid
\* time ("01:00" in the comment of the decoration step), and no character
\* at all for an invalid one.
hhmm(t) ==
    <<48 + ((t \div 60) \div 10), 48 + ((t \div 60) % 10), 58,
      48 + ((t % 60) \div 10), 48 + ((t % 60) % 10)>>

tidy(t) == IF IsValid(t) THEN hhmm(t) ELSE <<>>

\* The text of a label: the tidy time and the mark after it.
label_str(label) ==
    tidy(label[1]) \o (IF label[2] = "-" THEN <<45>>
                       ELSE IF label[2] = "+" THEN <<43>> ELSE <<>>)

\* a < b for two strings, as sorted() compares them: at the first position
\* where they differ, or a is a proper prefix of b.
StrLess(a, b) ==
    \/ Len(a) < Len(b) /\ \A i \in 1..Len(a) : a[i] = b[i]
    \/ \E k \in 1..Min({Len(a), Len(b)}) :
          /\ \A i \in 1..(k - 1) : a[i] = b[i]
          /\ a[k] < b[k]

\* The keys as the dict holds them before the final sort: the undecorated
\* buckets in range order, then the re-inserted "-" label, then the "+" label.
dict_order_labels(result) ==
    LET plain(mark) == {label \in DOMAIN result : label[2] = mark}
        seq(S) == LET ts == sorted({label[1] : label \in S})
                  IN [i \in 1..Len(ts) |-> CHOOSE label \in S : label[1] = ts[i]]
    IN seq(plain("")) \o seq(plain("-")) \o seq(plain("+"))

\* {str(key): categories[key] for key in sorted(categories.keys())}: the keys
\* of the returned dict, in ascending order of their text.
RECURSIVE sorted_labels(_)
sorted_labels(result) ==
    IF DOMAIN result = {} THEN <<>>
    ELSE LET first == CHOOSE label \in DOMAIN result :
                         \A other \in DOMAIN result \ {label} :
                            StrLess(label_str(label), label_str(other))
         IN <<first>> \o sorted_labels([label \in DOMAIN result \ {first} |-> result[label]])

\* ------------------------------------------ calculate_visit_frequencies
\* The durations kept: an int as it is, whatever its value; anything else
\* by BTime(d).num, which is None (and filtered out) when d is no time.  In
\* a list, a number stands for that int; Empty for None, "" or a malformed
\* string.
kept_durations(durations_list) == SelectSeq(durations_list, LAMBDA d : d # Empty)

\* calculate_visit_frequencies(durations_list, category_width): the Counter
\* of the categories of the kept durations; d // 0 is a ZeroDivisionError.
calculate_visit_frequencies(durations_list, width) ==
    LET durations == kept_durations(durations_list) IN
    IF width = 0 /\ durations # <<>>
    THEN [raised |-> TRUE, result |-> <<>>]
    ELSE IF durations = <<>>
    THEN [raised |-> FALSE, result |-> <<>>]
    ELSE [raised |-> FALSE,
          result |-> [c \in {category(durations[i], width) : i \in DOMAIN durations} |->
                         Cardinality({i \in DOMAIN durations :
                                         category(durations[i], width) = c})]]

\* ----------------------------------------------- calculate_visit_modes
\* calculate_visit_modes(durations_list, category_width): mosts[0] of an
\* empty Counter is an IndexError; else the greatest count, and the tidy
\* text of BTime(x + category_width/2) for each category x with that count,
\* in ascending order of x.  The widths of the model are even, so the centre
\* is a whole number of minutes.
calculate_visit_modes(durations_list, width) ==
    LET freq_list == calculate_visit_frequencies(durations_list, width) IN
    IF freq_list.raised \/ DOMAIN freq_list.result = {}
    THEN [raised |-> TRUE, modes_list |-> <<>>, occurences |-> 0]
    ELSE LET occurences == Max({freq_list.result[c] : c \in DOMAIN freq_list.result})
             modes_numeric == sorted({c \in DOMAIN freq_list.result :
                                         freq_list.result[c] = occurences})
         IN [raised |-> FALSE,
             modes_list |-> [k \in 1..Len(modes_numeric) |->
                               tidy(BTime(modes_numeric[k] + floordiv(width, 2)))],
             occurences |-> occurences]

\* ------------------------------------------------------------------ state
VARIABLES
    visits,        \* DayData.visits
    closing_time,  \* DayData.closing_time
    regular,       \* the day's roster of regular tags, once supplied
    oversize,      \* the day's roster of oversize tags, once supplied
    pc,            \* where the call of calc_blocks stands
    arg,           \* the as_of_when argument of the call (Empty: omitted)
    as_of_when,    \* as_of_when after defaulting
    blocks,        \* blocks: block start -> Block
    events,        \* events: event time -> Event
    done_events,   \* number of events the replay loop has processed
    evtime,        \* the replay loop's variable: the event time last taken
    td_args,       \* the arguments of a call of time_distribution; its list
                   \* and width are also those of the calls of
                   \* calculate_visit_frequencies and calculate_visit_modes
    td_out,        \* what that call gave: not called yet, raised, or a mapping
    vf_out,        \* what calculate_visit_frequencies gave
    vm_out,        \* what calculate_visit_modes gave
    atime,         \* the argument of Block.block_start and Block.block_end
    bstart_out,    \* what Block.block_start(atime) returned
    bend_out,      \* what Block.block_end(atime) returned
    le_arg,        \* the as_of_when argument of a call of latest_event
    le_out,        \* what latest_event returned
    stored_blocks, \* DayData.blocks, the field set by __init__
    first_out,     \* what a first whole call of calc_blocks gave
    second_out     \* what a second call with the same arguments gave

dayvars == <<visits, closing_time, regular, oversize, pc, arg, as_of_when,
             blocks, events, done_events, evtime>>

tdvars == <<td_args, td_out>>

statvars == <<vf_out, vm_out>>

blockvars == <<atime, bstart_out, bend_out>>

levars == <<le_arg, le_out>>

againvars == <<stored_blocks, first_out, second_out>>

\* What a call of calc_blocks does not touch.
nondayvars == <<tdvars, statvars, blockvars, levars, againvars>>

vars == <<dayvars, nondayvars>>

\* An empty dict.
NoBlocks == <<>>

\* The starting lists of times, and the start, end and width arguments.
MaxValues == 3

DistValues == {5, 35, 65, 575, 605}

DistBounds == {Empty, 0, 20, 30, 50, 60}

DistWidths == {20, 30}

NotCalled == [called |-> FALSE, raised |-> FALSE, result |-> <<>>, keys |-> <<>>]

NoArgs == [times_list |-> <<>>, start_time |-> Empty, end_time |-> Empty,
           category_width |-> BLOCK_DURATION]

\* No call of a statistics function, of a Block method, of latest_event or
\* of the whole calc_blocks has been made.
NoCounter == [called |-> FALSE, raised |-> FALSE, result |-> <<>>]

NoModes == [called |-> FALSE, raised |-> FALSE, modes_list |-> <<>>, occurences |-> 0]

NoTime == [called |-> FALSE, value |-> Empty]

NoCall == [called |-> FALSE, raised |-> FALSE, blocks |-> <<>>]

IdleDist == td_args = NoArgs /\ td_out = NotCalled

IdleStats == vf_out = NoCounter /\ vm_out = NoModes

IdleBlock == atime = Empty /\ bstart_out = NoTime /\ bend_out = NoTime

IdleLatest == le_arg = Empty /\ le_out = NoTime

IdleAgain == first_out = NoCall /\ second_out = NoCall

IdleDay ==
    /\ visits = <<>>
    /\ closing_time = Empty
    /\ regular = {}
    /\ oversize = {}
    /\ pc = "idle"
    /\ arg = Empty
    /\ as_of_when = Empty
    /\ blocks = NoBlocks
    /\ events = NoBlocks
    /\ done_events = 0
    /\ evtime = Empty
    /\ stored_blocks = NoBlocks

InitDay ==
    /\ visits \in VisitLists
    /\ closing_time \in ClosingTimes
    /\ regular = {}
    /\ oversize = {}
    /\ pc = "idle"
    /\ arg = Empty
    /\ as_of_when = Empty
    /\ blocks = NoBlocks
    /\ events = NoBlocks
    /\ done_events = 0
    /\ evtime = Empty
    /\ stored_blocks = NoBlocks

Init ==
    /\ InitDay
    /\ IdleDist
    /\ IdleStats
    /\ IdleBlock
    /\ IdleLatest
    /\ IdleAgain

\* calc_blocks up to the replay loop: as_of_when, the block grid, the events.
CalcBlocksCall ==
    /\ pc = "idle"
    /\ \E a \in Times \cup {Empty} :
         LET given == IF a = Empty THEN default_as_of(visits, closing_time) ELSE a
         IN \E when \in (IF given = Empty THEN Times ELSE {given}) :
              /\ arg' = a
              /\ as_of_when' = when
              /\ IF timeblocks_raise(visits, when)
                 THEN /\ pc' = "raised"
                      /\ UNCHANGED <<blocks, events>>
                 ELSE LET blocktimes == get_timeblock_starts(visits, when) IN
                      IF blocktimes = <<>>
                      THEN /\ pc' = "done"
                           /\ UNCHANGED <<blocks, events>>
                      ELSE /\ pc' = "replay"
                           /\ blocks' = [t \in Range(blocktimes) |-> NewBlock(t)]
                           /\ events' = calc_events(visits, when)
    /\ UNCHANGED <<visits, closing_time, regular, oversize, done_events, evtime>>
    /\ UNCHANGED nondayvars

\* One iteration of `for evtime in sorted(events.keys())`.
ReplayEvent ==
    /\ pc = "replay"
    /\ done_events < Cardinality(DOMAIN events)
    /\ LET ev == events[event_order(events)[done_events + 1]]
           latest_time == block_end(Max(DOMAIN blocks))
       IN /\ evtime' = ev.event_time
          /\ done_events' = done_events + 1
          /\ IF block_start(ev.event_time) \notin DOMAIN blocks
             THEN /\ pc' = "raised"
                  /\ UNCHANGED blocks
             ELSE /\ blocks' = replay_event(blocks, ev, latest_time)
                  /\ pc' = pc
    /\ UNCHANGED <<visits, closing_time, regular, oversize, arg, as_of_when, events>>
    /\ UNCHANGED nondayvars

\* The loop that fills num_ins, num_outs, here_list and num_here.
CalcHere ==
    /\ pc = "replay"
    /\ done_events = Cardinality(DOMAIN events)
    /\ blocks' = calc_here(blocks)
    /\ pc' = "categorize"
    /\ UNCHANGED <<visits, closing_time, regular, oversize, arg, as_of_when,
                   events, done_events, evtime>>
    /\ UNCHANGED nondayvars

\* The loop that splits the counts by the day's rosters, and the return.
Categorize ==
    /\ pc = "categorize"
    /\ \E reg \in SUBSET Tags, over \in SUBSET Tags :
         /\ regular' = reg
         /\ oversize' = over
         /\ blocks' = categorize(blocks, reg, over)
    /\ pc' = "done"
    /\ UNCHANGED <<visits, closing_time, arg, as_of_when, events, done_events,
                   evtime>>
    /\ UNCHANGED nondayvars

Next == CalcBlocksCall \/ ReplayEvent \/ CalcHere \/ Categorize

Spec == Init /\ [][Next]_vars

\* ---------------------------------------------- calls of time_distribution
InitDist ==
    /\ IdleDay
    /\ IdleStats
    /\ IdleBlock
    /\ IdleLatest
    /\ IdleAgain
    /\ td_args \in [times_list : UNION {[1..n -> DistValues] : n \in 0..MaxValues},
                     start_time : DistBounds, end_time : DistBounds,
                     category_width : DistWidths]
    /\ td_args.start_time # Empty /\ td_args.end_time # Empty
          => td_args.start_time <= td_args.end_time
    /\ td_out = NotCalled

TimeDistribution ==
    /\ ~td_out.called
    /\ LET r == time_distribution(td_args.times_list, td_args.start_time,
                                  td_args.end_time, td_args.category_width)
       IN td_out' = [called |-> TRUE, raised |-> r.raised, result |-> r.result,
                     keys |-> sorted_labels(r.result)]
    /\ UNCHANGED <<td_args, dayvars, statvars, blockvars, levars, againvars>>

NextDist == TimeDistribution

SpecDist == InitDist /\ [][NextDist]_vars

\* ---------------------------------- calls of the three statistics functions
\* The values of a list: times of the day (as numbers or as their texts),
\* the ints -5 and 2000, which are no times, and Empty for None or a
\* malformed string.  The widths: positive, zero and negative.
StatValues == {5, 35, 1440, -5, 2000, Empty}

StatWidths == {20, 30, 0, -30}

StatBounds == {Empty, 30}

InitStats ==
    /\ IdleDay
    /\ IdleBlock
    /\ IdleLatest
    /\ IdleAgain
    /\ td_args \in [times_list : UNION {[1..n -> StatValues] : n \in 0..MaxValues},
                     start_time : StatBounds, end_time : StatBounds,
                     category_width : StatWidths]
    /\ td_out = NotCalled
    /\ IdleStats

CalculateVisitFrequencies ==
    /\ ~vf_out.called
    /\ LET r == calculate_visit_frequencies(td_args.times_list, td_args.category_width)
       IN vf_out' = [called |-> TRUE, raised |-> r.raised, result |-> r.result]
    /\ UNCHANGED <<vm_out, tdvars, dayvars, blockvars, levars, againvars>>

CalculateVisitModes ==
    /\ ~vm_out.called
    /\ LET r == calculate_visit_modes(td_args.times_list, td_args.category_width)
       IN vm_out' = [called |-> TRUE, raised |-> r.raised,
                     modes_list |-> r.modes_list, occurences |-> r.occurences]
    /\ UNCHANGED <<vf_out, tdvars, dayvars, blockvars, levars, againvars>>

NextStats == CalculateVisitFrequencies \/ CalculateVisitModes \/ TimeDistribution

SpecStats == InitStats /\ [][NextStats]_vars

\* ------------------------------- calls of Block.block_start and block_end
\* Every time of the day, 24:00 included, as the argument.
InitBlock ==
    /\ IdleDay
    /\ IdleDist
    /\ IdleStats
    /\ IdleLatest
    /\ IdleAgain
    /\ atime \in 0..1440
    /\ bstart_out = NoTime
    /\ bend_out = NoTime

BlockStart ==
    /\ ~bstart_out.called
    /\ bstart_out' = [called |-> TRUE, value |-> block_start(atime)]
    /\ UNCHANGED <<atime, bend_out, dayvars, tdvars, statvars, levars, againvars>>

BlockEnd ==
    /\ ~bend_out.called
    /\ bend_out' = [called |-> TRUE, value |-> block_end(atime)]
    /\ UNCHANGED <<atime, bstart_out, dayvars, tdvars, statvars, levars, againvars>>

NextBlock == BlockStart \/ BlockEnd

SpecBlock == InitBlock /\ [][NextBlock]_vars

\* ------------------------------------------------- calls of latest_event
InitLatest ==
    /\ InitDay
    /\ IdleDist
    /\ IdleStats
    /\ IdleBlock
    /\ IdleLatest
    /\ IdleAgain

LatestEvent ==
    /\ ~le_out.called
    /\ \E a \in Times \cup {Empty, Malformed} :
         /\ le_arg' = a
         /\ le_out' = [called |-> TRUE, value |-> latest_event(visits, a)]
    /\ UNCHANGED <<dayvars, tdvars, statvars, blockvars, againvars>>

NextLatest == LatestEvent

SpecLatest == InitLatest /\ [][NextLatest]_vars

\* ------------------------------------- two whole calls of calc_blocks
\* The rosters of the day, here in place before the first call.
RosterChoices == {<<{}, {}>>, <<{TagSeq[1]}, {TagSeq[2]}>>, <<Tags, {TagSeq[1]}>>}

\* A whole call calc_blocks(as_of_when = a) at the clock time now: what
\* CalcBlocksCall, ReplayEvent, CalcHere and Categorize do one after the
\* other.  The clock is read (BTime("now")) only when a is omitted and the
\* default is empty too.
calc_blocks_call(vs, closing, a, now, reg, over) ==
    LET given == IF a = Empty THEN default_as_of(vs, closing) ELSE a
        when == IF given = Empty THEN now ELSE given
    IN calc_blocks(vs, when, reg, over)

InitAgain ==
    /\ visits \in VisitLists
    /\ closing_time \in ClosingTimes
    /\ \E r \in RosterChoices : regular = r[1] /\ oversize = r[2]
    /\ pc = "idle"
    /\ arg = Empty
    /\ as_of_when = Empty
    /\ blocks = NoBlocks
    /\ events = NoBlocks
    /\ done_events = 0
    /\ evtime = Empty
    /\ stored_blocks = NoBlocks
    /\ IdleDist
    /\ IdleStats
    /\ IdleBlock
    /\ IdleLatest
    /\ IdleAgain

FirstCall ==
    /\ ~first_out.called
    /\ \E a \in Times \cup {Empty}, now \in Times :
         LET r == calc_blocks_call(visits, closing_time, a, now, regular, oversize)
         IN /\ arg' = a
            /\ first_out' = [called |-> TRUE, raised |-> r.raised, blocks |-> r.blocks]
    /\ UNCHANGED <<visits, closing_time, regular, oversize, pc, as_of_when, blocks,
                   events, done_events, evtime, stored_blocks, second_out>>
    /\ UNCHANGED <<tdvars, statvars, blockvars, levars>>

SecondCall ==
    /\ first_out.called
    /\ ~second_out.called
    /\ \E now \in Times :
         LET r == calc_blocks_call(visits, closing_time, arg, now, regular, oversize)
         IN second_out' = [called |-> TRUE, raised |-> r.raised, blocks |-> r.blocks]
    /\ UNCHANGED <<dayvars, stored_blocks, first_out>>
    /\ UNCHANGED <<tdvars, statvars, blockvars, levars>>

NextAgain == FirstCall \/ SecondCall

SpecAgain == InitAgain /\ [][NextAgain]_vars

\* ----------------------------------------------------------------- claims
\* The call has returned its mapping (possibly the empty one).
Returned == pc = "done"

\* The block before t in ascending time_start order, if any.
EarlierBlocks(t) == {u \in DOMAIN blocks : u < t}

\* The events of the call that block t owns.
OwnedEvents(t) == {e \in DOMAIN events : block_start(e) = t}

\* C1: in the mapping returned by calc_blocks every block, also one in which
\* no event falls, has max_here >= num_here and num_here >= 0.
C1_MaxHereAtLeastNumHere ==
    Returned =>
        \A t \in DOMAIN blocks :
            blocks[t].max_here >= blocks[t].num_here /\ blocks[t].num_here >= 0

\* C2: in the mapping returned, in ascending time_start order, here_list of a
\* block is (here_list of the block before it, empty before the first block,
\* union its ins_list) minus its outs_list, and num_here is the size of it.
C2_HereListRecurrence ==
    Returned =>
        \A t \in DOMAIN blocks :
            LET before == IF EarlierBlocks(t) = {} THEN {}
                          ELSE blocks[Max(EarlierBlocks(t))].here_list
            IN /\ blocks[t].here_list =
                      (before \cup Range(blocks[t].ins_list)) \ Range(blocks[t].outs_list)
               /\ blocks[t].num_here = Cardinality(blocks[t].here_list)

\* C2 witness: a returned mapping of several blocks in which a later block
\* both inherits a tag and loses one.
C2_Witness ==
    /\ Returned
    /\ \E t \in DOMAIN blocks :
          /\ EarlierBlocks(t) # {}
          /\ blocks[t].here_list # {}
          /\ blocks[t].outs_list # <<>>
          /\ Range(blocks[t].ins_list) = {}

\* The peak of the running occupancy over the events of block t taken so far.
PeakSoFar(t) ==
    LET taken == {e \in OwnedEvents(t) : e <= evtime}
    IN IF taken = {} THEN 0 ELSE Max({events[e].num_here_total : e \in taken})

IncludedCheckIns ==
    Cardinality({i \in DOMAIN visits : IsValid(visits[i].time_in) /\ visits[i].time_in <= as_of_when})

IncludedCheckOuts ==
    Cardinality({i \in DOMAIN visits : IsValid(visits[i].time_out) /\ visits[i].time_out <= as_of_when})

LaterVariants ==
    {vs \in [DOMAIN visits -> Visit] :
        \A i \in DOMAIN visits :
            /\ vs[i].bike_id = visits[i].bike_id
            /\ IF visits[i].time_in <= arg THEN vs[i].time_in = visits[i].time_in
               ELSE vs[i].time_in > arg
            /\ IF visits[i].time_out <= arg THEN vs[i].time_out = visits[i].time_out
               ELSE vs[i].time_out > arg}

\* Some check-in or check-out of the day is after the as_of_when argument.
HasLaterEvent ==
    \E i \in DOMAIN visits : visits[i].time_in > arg \/ visits[i].time_out > arg

\* C5: a call with an explicit as_of_when, on a day with events after it,
\* completes and returns a mapping in which no check-in or check-out after
\* as_of_when is in any ins_list or outs_list, and which is the same
\* whatever happens after as_of_when.
C5_LaterEventsExcluded ==
    arg # Empty /\ HasLaterEvent /\ pc \in {"done", "raised"} =>
        /\ pc = "done"
        /\ \A t \in DOMAIN blocks :
              /\ Len(blocks[t].ins_list) =
                    Cardinality({i \in DOMAIN visits :
                        visits[i].time_in <= arg /\ block_start(visits[i].time_in) = t})
              /\ Len(blocks[t].outs_list) =
                    Cardinality({i \in DOMAIN visits :
                        /\ IsValid(visits[i].time_out) /\ visits[i].time_out <= arg
                        /\ block_start(visits[i].time_out) = t})
        /\ \A vs \in LaterVariants :
              calc_blocks(vs, arg, regular, oversize) = [raised |-> FALSE, blocks |-> blocks]

\* The valid event times of the day, and those at or before as_of_when.
DayEvents == {t \in all_events(visits) : IsValid(t)}

IncludedEvents == {t \in DayEvents : t <= as_of_when}

\* The block starts from first to last in steps of BLOCK_DURATION.
Grid(first, last) == {t \in first..last : (t - first) % BLOCK_DURATION = 0}

OutBeforeIn(v) == IsValid(v.time_out) /\ v.time_out < v.time_in

\* C7: a check-out earlier than its check-in does not abort the call and
\* takes nothing off the occupancy: the tag (used for no other visit) is in
\* here_list from the block of its check-in on.
C7_BadCheckOutTakesNothingOff ==
    pc \in {"done", "raised"} =>
        \A i \in DOMAIN visits :
            /\ OutBeforeIn(visits[i])
            /\ visits[i].time_in <= as_of_when
            /\ \A j \in DOMAIN visits : IsValid(visits[j].time_out)
            /\ \A j \in DOMAIN visits : j # i => visits[j].bike_id # visits[i].bike_id
            => /\ pc = "done"
               /\ \A t \in DOMAIN blocks :
                     t >= block_start(visits[i].time_in) =>
                         visits[i].bike_id \in blocks[t].here_list

\* The orders in which the day's visits can have been entered.
Reordered ==
    {[i \in DOMAIN visits |-> visits[p[i]]] :
        p \in {q \in [DOMAIN visits -> DOMAIN visits] :
                  \A i, j \in DOMAIN visits : i # j => q[i] # q[j]}}

Counts(blks) ==
    [t \in DOMAIN blks |->
        <<blks[t].num_ins, blks[t].num_outs, blks[t].num_here, blks[t].max_here>>]

\* C8: entering the same visits in another order, which changes nothing but
\* the order of the check-ins and check-outs of one minute, gives the same
\* num_ins, num_outs, num_here and max_here in every block.
C8_SameMinuteOrderIrrelevant ==
    Returned =>
        \A vs \in Reordered :
            LET other == calc_blocks(vs, as_of_when, regular, oversize)
            IN ~other.raised /\ Counts(other.blocks) = Counts(blocks)

\* C8 witness: two tags checked in in the same minute, one of them checked
\* out in that minute too, the other later.
C8_Witness ==
    /\ Returned
    /\ \E i, j \in DOMAIN visits :
          /\ visits[i].bike_id # visits[j].bike_id
          /\ visits[i].time_in = visits[j].time_in
          /\ visits[i].time_out = visits[i].time_in
          /\ visits[j].time_out > visits[j].time_in
          /\ visits[j].time_out <= as_of_when

Unclassified(tags) == {tag \in tags : tag \notin regular /\ tag \notin oversize}

\* C9: in every block returned, for ins, outs, here and the peak, the
\* regular and oversize counts add up to the total less the tags that are in
\* neither roster: never more than the total, and the total when every tag is
\* in exactly one roster.
C9_CategoriesReconcile ==
    Returned =>
        \A t \in DOMAIN blocks :
            LET b == blocks[t] IN
            /\ b.num_ins_regular + b.num_ins_oversize =
                  b.num_ins - Len(SelectSeq(b.ins_list, LAMBDA tag : tag \in Unclassified(Tags)))
            /\ b.num_outs_regular + b.num_outs_oversize =
                  b.num_outs - Len(SelectSeq(b.outs_list, LAMBDA tag : tag \in Unclassified(Tags)))
            /\ b.num_here_regular + b.num_here_oversize =
                  b.num_here - Cardinality(Unclassified(b.here_list))
            /\ b.max_here_regular + b.max_here_oversize =
                  b.max_here - Cardinality(Unclassified(b.max_here_list))
            /\ b.num_ins_regular + b.num_ins_oversize <= b.num_ins
            /\ b.num_outs_regular + b.num_outs_oversize <= b.num_outs
            /\ b.num_here_regular + b.num_here_oversize <= b.num_here
            /\ b.max_here_regular + b.max_here_oversize <= b.max_here
            /\ (\A tag \in Tags : (tag \in regular) # (tag \in oversize)) =>
                  /\ b.num_ins_regular + b.num_ins_oversize = b.num_ins
                  /\ b.num_outs_regular + b.num_outs_oversize = b.num_outs
                  /\ b.num_here_regular + b.num_here_oversize = b.num_here
                  /\ b.max_here_regular + b.max_here_oversize = b.max_here

\* C9 witness: a block with a tag of neither roster and a tag of both among
\* its check-ins, so the category counts fall short of the total.
C9_Witness ==
    /\ Returned
    /\ \E t \in DOMAIN blocks :
          /\ \E k \in DOMAIN blocks[t].ins_list :
                blocks[t].ins_list[k] \in Unclassified(Tags)
          /\ \E k \in DOMAIN blocks[t].ins_list :
                blocks[t].ins_list[k] \in regular \cap oversize
          /\ blocks[t].num_ins_regular + blocks[t].num_ins_oversize < blocks[t].num_ins
          /\ blocks[t].num_here > 0

\* The call of time_distribution has ended, by returning or by raising.
DistEnded == td_out.called

DistStart ==
    IF td_args.start_time # Empty THEN td_args.start_time
    ELSE Min({category(td_args.times_list[i], td_args.category_width) :
                 i \in DOMAIN td_args.times_list})

DistEnd ==
    IF td_args.end_time # Empty THEN td_args.end_time
    ELSE Max({category(td_args.times_list[i], td_args.category_width) :
                 i \in DOMAIN td_args.times_list})

\* The count the returned mapping has for the bucket that starts at t.
BucketCount(t) ==
    LET labels == {label \in DOMAIN td_out.result : label[1] = t}
    IN IF labels = {} THEN 0 ELSE td_out.result[CHOOSE label \in labels : TRUE]

\* The values of the list whose category is in the set cats.
ValuesIn(cats) ==
    Cardinality({i \in DOMAIN td_args.times_list :
                    category(td_args.times_list[i], td_args.category_width) \in cats})

\* C10: for valid times, a positive width and start <= end, on the category
\* grid or not, time_distribution returns one bucket per width step from
\* start to end; the start bucket counts the values of every category <=
\* start, the end bucket those of every category >= end, a bucket in between
\* those of its own category, and the counts add up to the number of values.
C10_EveryValueInABucket ==
    DistEnded /\ td_args.times_list # <<>> /\ DistStart <= DistEnd =>
        LET w == td_args.category_width
            grid == {t \in DistStart..DistEnd : (t - DistStart) % w = 0}
        IN /\ ~td_out.raised
           /\ {label[1] : label \in DOMAIN td_out.result} = grid
           /\ Cardinality(DOMAIN td_out.result) = Cardinality(grid)
           /\ \A t \in grid :
                 BucketCount(t) =
                    ValuesIn({c \in 0..1440 :
                                \/ c = t
                                \/ t = DistStart /\ c <= DistStart
                                \/ t + w > DistEnd /\ c >= DistEnd})
           /\ SumSeq([k \in 1..Cardinality(grid) |-> BucketCount(sorted(grid)[k])])
                 = Len(td_args.times_list)

\* The categories of the values of the list.
DistCategories ==
    {category(td_args.times_list[i], td_args.category_width) :
        i \in DOMAIN td_args.times_list}

\* The call is one C11 speaks of: some valid times, start <= end, and end on
\* the grid of width steps from start.
DistOnGrid ==
    /\ DistEnded
    /\ td_args.times_list # <<>>
    /\ DistStart <= DistEnd
    /\ (DistEnd - DistStart) % td_args.category_width = 0

\* C11: time_distribution returns a mapping in which the start bucket's label
\* ends with "-" exactly when a category below start was folded into it and
\* the end bucket's label ends with "+" exactly when a category above end
\* was folded into it, also when start = end and both apply; with start and
\* end omitted the keys are the undecorated grid from the least to the
\* greatest observed category.
C11_DecoratedIffFolded ==
    DistOnGrid =>
        LET w == td_args.category_width
            below == \E c \in DistCategories : c < DistStart
            above == \E c \in DistCategories : c > DistEnd
        IN /\ ~td_out.raised
           /\ (\E label \in DOMAIN td_out.result :
                  label[1] = DistStart /\ label[2] \in {"-", "-+"}) <=> below
           /\ (\E label \in DOMAIN td_out.result :
                  label[1] = DistEnd /\ label[2] \in {"+", "-+"}) <=> above
           /\ td_args.start_time = Empty /\ td_args.end_time = Empty =>
                 DOMAIN td_out.result =
                    {<<t, "">> : t \in {u \in Min(DistCategories)..Max(DistCategories) :
                                           (u - Min(DistCategories)) % w = 0}}

\* C12: the keys of the mapping time_distribution returns are in ascending
\* order of the category start under each label, with or without "-" and "+"
\* marks, and across starts before and from ten o'clock.
C12_KeysAscendByStart ==
    DistEnded /\ ~td_out.raised =>
        /\ Len(td_out.keys) = Cardinality(DOMAIN td_out.result)
        /\ Range(td_out.keys) = DOMAIN td_out.result
        /\ \A i, j \in DOMAIN td_out.keys :
              i < j => td_out.keys[i][1] < td_out.keys[j][1]

\* C12 witness: a returned mapping with a marked first label, and with
\* buckets on both sides of ten o'clock.
C12_Witness ==
    /\ DistEnded /\ ~td_out.raised
    /\ \E label \in DOMAIN td_out.result : label[2] = "-"
    /\ \E a, b \in DOMAIN td_out.result : a[1] < 600 /\ a[1] >= 540 /\ b[1] >= 600
    /\ td_out.keys[1][2] = "-"

\* The list holds nothing but times of the day, and the width is positive.
ValidDurations ==
    /\ td_args.category_width > 0
    /\ \A i \in DOMAIN td_args.times_list : td_args.times_list[i] \in 0..1440

\* The categories of the list's values, and how many values each has.
StatCategories ==
    {category(td_args.times_list[i], td_args.category_width) :
        i \in DOMAIN td_args.times_list}

StatCount(c) ==
    Cardinality({i \in DOMAIN td_args.times_list :
                    category(td_args.times_list[i], td_args.category_width) = c})

\* C13: for a non-empty list of valid durations and a positive width,
\* calculate_visit_modes returns the greatest count of the histogram and,
\* in ascending order of category start, the centre
\* category_start + category_width/2 of every category with that count.
C13_ModesAreAllMaxCategories ==
    vm_out.called /\ ValidDurations /\ td_args.times_list # <<>> =>
        LET most == Max({StatCount(c) : c \in StatCategories})
            modes == sorted({c \in StatCategories : StatCount(c) = most})
        IN /\ ~vm_out.raised
           /\ vm_out.occurences = most
           /\ vm_out.modes_list =
                 [k \in 1..Len(modes) |-> hhmm(modes[k] + td_args.category_width \div 2)]

\* The valid inputs of the list: the times of the day.
ValidInputs == {i \in DOMAIN td_args.times_list : td_args.times_list[i] \in 0..1440}

\* C14: for any list and a positive width, calculate_visit_frequencies
\* returns a mapping whose keys are the categories floor(v / width) * width
\* of the valid inputs v, each with the number of valid inputs of that
\* category, so that the counts add up to the number of valid inputs.
C14_HistogramOfValidInputs ==
    vf_out.called /\ td_args.category_width > 0 =>
        LET w == td_args.category_width
            cats == {category(td_args.times_list[i], w) : i \in ValidInputs}
        IN /\ ~vf_out.raised
           /\ DOMAIN vf_out.result = cats
           /\ \A c \in cats :
                 vf_out.result[c] =
                    Cardinality({i \in ValidInputs : category(td_args.times_list[i], w) = c})
           /\ SumSeq([k \in 1..Cardinality(cats) |-> vf_out.result[sorted(cats)[k]]])
                 = Cardinality(ValidInputs)

\* C15: with an empty list, or a list without any valid value, and a
\* positive width, none of the three functions raises:
\* calculate_visit_frequencies returns an empty mapping, time_distribution a
\* mapping that counts nothing, calculate_visit_modes a result without modes.
C15_NothingToCountIsNoError ==
    ValidInputs = {} /\ td_args.category_width > 0 =>
        /\ vf_out.called => ~vf_out.raised /\ DOMAIN vf_out.result = {}
        /\ td_out.called =>
              /\ ~td_out.raised
              /\ \A label \in DOMAIN td_out.result : td_out.result[label] = 0
        /\ vm_out.called => ~vm_out.raised /\ vm_out.modes_list = <<>>

\* The list without its invalid values.
Cleaned == SelectSeq(td_args.times_list, LAMBDA v : v \in 0..1440)

\* C16: with a positive width, a value that is no valid time or duration is
\* left out without raising: each function gives what it gives for the list
\* without that value (whenever it gives something for that list).
C16_InvalidValuesLeftOut ==
    td_args.category_width > 0 /\ Cleaned # td_args.times_list =>
        LET w == td_args.category_width
            vf == calculate_visit_frequencies(Cleaned, w)
            vm == calculate_visit_modes(Cleaned, w)
            td == time_distribution(Cleaned, td_args.start_time, td_args.end_time, w)
        IN /\ vf_out.called /\ ~vf.raised =>
                 ~vf_out.raised /\ vf_out.result = vf.result
           /\ vm_out.called /\ ~vm.raised =>
                 /\ ~vm_out.raised
                 /\ vm_out.modes_list = vm.modes_list
                 /\ vm_out.occurences = vm.occurences
           /\ td_out.called /\ ~td.raised =>
                 ~td_out.raised /\ td_out.result = td.result

\* C17: with a width of zero or less, each of the three functions fails with
\* an error, whatever the list, the empty one included.
C17_BadWidthFails ==
    td_args.category_width <= 0 =>
        /\ vf_out.called => vf_out.raised
        /\ vm_out.called => vm_out.raised
        /\ td_out.called => td_out.raised

\* C18: for every time t of the day, 24:00 included, Block.block_start(t) is
\* floor(t / BLOCK_DURATION) * BLOCK_DURATION and Block.block_end(t) is
\* block_start(t) + BLOCK_DURATION - 1, so that
\* block_start(t) <= t <= block_end(t), and block_start of a block start is
\* that block start.
C18_BlockBounds ==
    LET start == (atime \div BLOCK_DURATION) * BLOCK_DURATION IN
    /\ bstart_out.called =>
          /\ bstart_out.value = start
          /\ bstart_out.value <= atime
          /\ block_start(bstart_out.value) = bstart_out.value
    /\ bend_out.called =>
          /\ bend_out.value = start + BLOCK_DURATION - 1
          /\ atime <= bend_out.value

\* C19: latest_event(as_of_when) returns the latest check-in or check-out
\* time of the day at or before as_of_when (of the whole day when as_of_when
\* is blank or None), and the empty value when there is none.
C19_LatestEventWithinBound ==
    le_out.called /\ le_arg # Malformed =>
        LET bound == IF le_arg = Empty THEN 1440 ELSE le_arg
            within == {t \in all_events(visits) : IsValid(t) /\ t <= bound}
        IN le_out.value = IF within = {} THEN Empty ELSE Max(within)

InProgress(v) == IsValid(v.time_in) /\ ~IsValid(v.time_out)

\* The in-progress visits whose tag has no other visit that day.
LoneInProgress ==
    {i \in DOMAIN visits :
        /\ InProgress(visits[i])
        /\ \A j \in DOMAIN visits : j # i => visits[j].bike_id # visits[i].bike_id}

\* C21: once calc_blocks is called on a day with a visit in progress, the
\* empty time_out is not the earliest event and stops no call; the call
\* returns a mapping whose first block is that of a real event, and the tag
\* of an in-progress visit checked in by as_of_when is checked in once, is
\* never checked out, and is in here_list of every block from the block of
\* its check-in through the last block.
C21_InProgressVisitStaysOnHand ==
    pc # "idle" /\ (\E i \in DOMAIN visits : InProgress(visits[i])) =>
        /\ IsValid(earliest_event(visits))
        /\ pc # "raised"
        /\ Returned =>
              \A i \in LoneInProgress :
                 visits[i].time_in <= as_of_when =>
                    LET tag == visits[i].bike_id
                        first == block_start(visits[i].time_in)
                    IN /\ first \in DOMAIN blocks
                       /\ Cardinality({k \in DOMAIN blocks[first].ins_list :
                                          blocks[first].ins_list[k] = tag}) = 1
                       /\ \A t \in DOMAIN blocks :
                             /\ tag \notin Range(blocks[t].outs_list)
                             /\ t >= first => tag \in blocks[t].here_list

====
